---- MODULE Spec2Model ----
(***************************************************************************)
(* A model of two parts of the SVSM kernel:                                *)
(*   kernel/src/cpu/insn.rs       the instruction view and its decoder     *)
(*   kernel/src/syscall/class1.rs the file-system system calls             *)
(*                                                                         *)
(* Four specifications share the variables:                                *)
(*   Spec      one Instruction view built by Instruction::new over every   *)
(*             value of raw bytes 0 and 1, decoded repeatedly;             *)
(*   SpecView  two views that agree or differ in their raw bytes and in    *)
(*             their public fields, each decoded once;                     *)
(*   SpecOpen  sys_open against a root directory and an object table       *)
(*             whose calls succeed or fail;                                *)
(*   SpecReaddir  sys_readdir against an open directory, an open file and  *)
(*             an object of another kind.                                  *)
(***************************************************************************)
EXTENDS Integers, Sequences, FiniteSets, TLC

VARIABLES
    insn,          \* the Instruction view
    insn0,         \* the view as it was constructed (history)
    other,         \* a second Instruction view (SpecView)
    other0,        \* the second view as decode() was called on it (history)
    pc,            \* "built" | "decoded" | "both" | "sys"
    result,        \* what the last decode() of insn returned
    first_result,  \* what the first decode() of insn returned (history)
    other_result,  \* what decode() of other returned
    reads,         \* the positions the last decode() indexed, in order
    panicked,      \* whether the last decode() panicked on an index
    ndecodes,      \* how many times decode() ran on insn
    files,         \* the paths that exist under the task's root directory
    objs,          \* the object table: a sequence of objects, indexed by id
    syscall,       \* the last system call: its name, arguments and pre-state
    user_dirents,  \* the user array sys_readdir writes to
    trace,         \* the calls the last system call made, in order
    sysret         \* what the last system call returned

vars == <<insn, insn0, other, other0, pc, result, first_result, other_result,
          reads, panicked, ndecodes, files, objs, syscall, user_dirents, trace,
          sysret>>

insn_vars == <<insn, insn0, other, other0, pc, result, first_result,
               other_result, reads, panicked, ndecodes>>

sys_vars == <<files, objs, syscall, user_dirents, trace, sysret>>

(***************************************************************************)
(* Bounds of the model.                                                    *)
(***************************************************************************)
\* How many times decode() is re-invoked on one view.
MaxDecodes == 2

(***************************************************************************)
(* kernel/src/cpu/insn.rs                                                  *)
(***************************************************************************)
MAX_INSN_SIZE == 15
MAX_INSN_FIELD_SIZE == 3

\* The values of a u8.
Byte == 0 .. 255

None == [tag |-> "None"]
Some(v) == [tag |-> "Some", val |-> v]

Ok(v) == [ok |-> TRUE, val |-> v]
Err(e) == [ok |-> FALSE, err |-> e]

\* The result variables before any decode() has returned.
NoResult == [tag |-> "NoResult"]

Operand_rdx == [tag |-> "Reg", reg |-> "Rdx"]

Cpuid == [insn |-> "Cpuid"]
Inl(o) == [insn |-> "Inl", opnd |-> o]
Inb(o) == [insn |-> "Inb", opnd |-> o]
Inw(o) == [insn |-> "Inw", opnd |-> o]
Outl(o) == [insn |-> "Outl", opnd |-> o]
Outb(o) == [insn |-> "Outb", opnd |-> o]
Outw(o) == [insn |-> "Outw", opnd |-> o]

\* A size() that counts the opcode byte and forgets the 0x66 prefix.
size_without_prefix(d) ==
    CASE d.insn = "Cpuid" -> 2
      [] d.insn = "Inb" -> 1
      [] d.insn = "Inw" -> 1
      [] d.insn = "Inl" -> 1
      [] d.insn = "Outb" -> 1
      [] d.insn = "Outw" -> 1
      [] d.insn = "Outl" -> 1

DecodedInsn_size(d) ==
    CASE d.insn = "Cpuid" -> 2
      [] d.insn = "Inb" -> 1
      [] d.insn = "Inw" -> 2
      [] d.insn = "Inl" -> 1
      [] d.insn = "Outb" -> 1
      [] d.insn = "Outw" -> 2
      [] d.insn = "Outl" -> 1

InsnBuffer_new(buf, nb_bytes) == [buf |-> buf, nb_bytes |-> nb_bytes]

InsnBuffer_default(N) == [buf |-> [i \in 0 .. N - 1 |-> 0], nb_bytes |-> 0]

\* An index checked against the used length instead of the capacity.
Index_used_length(b, i) ==
    IF i < b.nb_bytes
    THEN [panic |-> FALSE, val |-> b.buf[i]]
    ELSE [panic |-> TRUE, val |-> 0]

\* buf[i] of a Rust array: the element, or a panic at or beyond the capacity.
Index(b, i) ==
    IF i \in DOMAIN b.buf
    THEN [panic |-> FALSE, val |-> b.buf[i]]
    ELSE [panic |-> TRUE, val |-> 0]

IndexMut(b, i, v) ==
    IF i \in DOMAIN b.buf
    THEN [panic |-> FALSE, buf |-> [b EXCEPT !.buf[i] = v]]
    ELSE [panic |-> TRUE, buf |-> b]

Instruction_new(insn_bytes) ==
    [prefixes |-> None,
     opcode |-> InsnBuffer_default(MAX_INSN_FIELD_SIZE),
     insn_bytes |-> InsnBuffer_new(insn_bytes, 0),
     opnd_bytes |-> 4]

Instruction_default ==
    [prefixes |-> None,
     opcode |-> InsnBuffer_default(MAX_INSN_FIELD_SIZE),
     insn_bytes |-> InsnBuffer_default(MAX_INSN_SIZE),
     opnd_bytes |-> 0]

len(self) == self.insn_bytes.nb_bytes

is_empty(self) == self.insn_bytes.nb_bytes = 0

\* A DecodeFailed that reports the failure as an unsupported instruction.
decode_failed_other_kind ==
    Err([kind |-> "Vc",
         vc |-> [rip |-> 0, code |-> 0, error_type |-> "Unsupported"]])

\* The error decode() ends with: the VcError, converted into an SvsmError.
decode_failed ==
    Err([kind |-> "Vc",
         vc |-> [rip |-> 0, code |-> 0, error_type |-> "DecodeFailed"]])

\* What a call of decode() amounts to: the value returned, the positions of
\* the raw buffer it indexed, and whether an index panicked.
Return(ret, idx) == [ret |-> ret, reads |-> idx, panic |-> FALSE]
Unwind(idx) == [ret |-> NoResult, reads |-> idx, panic |-> TRUE]

\* One-byte opcodes that also take the immediate-port forms 0xE4 .. 0xE7.
one_byte_insn_with_imm(b) ==
    CASE b = \hEC -> Some(Inb(Operand_rdx))
      [] b = \hED -> Some(Inl(Operand_rdx))
      [] b = \hEE -> Some(Outb(Operand_rdx))
      [] b = \hEF -> Some(Outl(Operand_rdx))
      [] b = \hE4 -> Some(Inb(Operand_rdx))
      [] b = \hE5 -> Some(Inl(Operand_rdx))
      [] b = \hE6 -> Some(Outb(Operand_rdx))
      [] b = \hE7 -> Some(Outl(Operand_rdx))
      [] OTHER -> None

\* The arms of the match on byte 0 that return at once.
one_byte_insn(b) ==
    CASE b = \hEC -> Some(Inb(Operand_rdx))
      [] b = \hED -> Some(Inl(Operand_rdx))
      [] b = \hEE -> Some(Outb(Operand_rdx))
      [] b = \hEF -> Some(Outl(Operand_rdx))
      [] OTHER -> None

\* A 0x66 arm that lets the prefix through in front of the byte-width forms.
opsize_insn_any_width(b) ==
    CASE b = \hEC -> Some(Inb(Operand_rdx))
      [] b = \hED -> Some(Inw(Operand_rdx))
      [] b = \hEE -> Some(Outb(Operand_rdx))
      [] b = \hEF -> Some(Outw(Operand_rdx))
      [] OTHER -> None

\* The match on byte 1 under the 0x66 arm.
opsize_insn(b) ==
    CASE b = \hED -> Some(Inw(Operand_rdx))
      [] b = \hEF -> Some(Outw(Operand_rdx))
      [] OTHER -> None

\* The 0x0F arm: byte 1 is indexed and compared with 0xA2.
decode_escape(self) ==
    LET i1 == Index(self.insn_bytes, 1)
    IN  IF i1.panic THEN Unwind(<<0, 1>>)
        ELSE IF i1.val = \hA2 THEN Return(Ok(Cpuid), <<0, 1>>)
        ELSE Return(decode_failed, <<0, 1>>)

\* A 0x66 arm that takes the prefix only from a view whose recorded operand
\* width is 2.
decode_opsize_by_width(self) ==
    LET i1 == Index(self.insn_bytes, 1)
    IN  IF i1.panic THEN Unwind(<<0, 1>>)
        ELSE IF self.opnd_bytes = 2 /\ opsize_insn(i1.val) # None
        THEN Return(Ok(opsize_insn(i1.val).val), <<0, 1>>)
        ELSE Return(decode_failed, <<0, 1>>)

\* The 0x66 arm: byte 1 is indexed and matched.
decode_opsize(self) ==
    LET i1 == Index(self.insn_bytes, 1)
    IN  IF i1.panic THEN Unwind(<<0, 1>>)
        ELSE IF opsize_insn(i1.val) # None
        THEN Return(Ok(opsize_insn(i1.val).val), <<0, 1>>)
        ELSE Return(decode_failed, <<0, 1>>)

decode(self) ==
    LET i0 == Index(self.insn_bytes, 0)
    IN  IF i0.panic THEN Unwind(<<0>>)
        ELSE IF one_byte_insn(i0.val) # None
        THEN Return(Ok(one_byte_insn(i0.val).val), <<0>>)
        ELSE IF i0.val = \h66 THEN decode_opsize(self)
        ELSE IF i0.val = \h0F THEN decode_escape(self)
        ELSE Return(decode_failed, <<0>>)

\* A decode() that does what the comment on insn_bytes says: it adjusts the
\* used length to the length of the instruction it decoded.
decode_self_adjusted(self) ==
    IF decode(self).panic \/ ~decode(self).ret.ok
    THEN self
    ELSE [self EXCEPT !.insn_bytes.nb_bytes = DecodedInsn_size(decode(self).ret.val)]

\* The view after decode(&self): a shared borrow of plain fields.
decode_self(self) == self

(***************************************************************************)
(* The raw bytes a view is built from.                                     *)
(***************************************************************************)
\* The byte the tests pad the raw buffer with, and a zero padding.
TailPads == {\h00, \h41}

\* The bytes the decoder tells apart, 0x00 and the tests' padding byte.
SampleBytes == {\h00, \h0F, \h41, \h66, \hA2, \hEC, \hED, \hEE, \hEF}

\* The positions and values a caller overwrites through index_mut.
WritePositions == {1, 2, MAX_INSN_SIZE - 1}
WriteBytes == {\hED}

\* The values a caller gives the public fields of a view.
UsedLengths == 0 .. MAX_INSN_SIZE
OperandWidths == {2, 4}
PrefixValues ==
    {None, Some(InsnBuffer_new([i \in 0 .. MAX_INSN_FIELD_SIZE - 1 |->
                                   IF i = 0 THEN \h66 ELSE 0], 1))}
OpcodeValues ==
    {InsnBuffer_default(MAX_INSN_FIELD_SIZE),
     InsnBuffer_new([i \in 0 .. MAX_INSN_FIELD_SIZE - 1 |->
                        IF i = 0 THEN \h0F ELSE IF i = 1 THEN \hA2 ELSE 0], 2)}

\* [u8; MAX_INSN_SIZE] with the given bytes 0 and 1 and a padding after them.
RawBytes(b0, b1, pad) ==
    [i \in 0 .. MAX_INSN_SIZE - 1 |->
        IF i = 0 THEN b0 ELSE IF i = 1 THEN b1 ELSE pad]

\* No system call has run: the part of the state the decoder leaves alone.
SysIdle ==
    /\ files = {}
    /\ syscall = NoResult
    /\ objs = << >>
    /\ user_dirents = << >>
    /\ trace = << >>
    /\ sysret = NoResult

(***************************************************************************)
(* Spec: a view built by Instruction::new, decoded again and again.        *)
(***************************************************************************)
Init ==
    /\ \E b0 \in Byte, b1 \in Byte, pad \in TailPads :
          insn = Instruction_new(RawBytes(b0, b1, pad))
    /\ insn0 = insn
    /\ other = Instruction_default
    /\ other0 = other
    /\ pc = "built"
    /\ result = NoResult
    /\ first_result = NoResult
    /\ other_result = NoResult
    /\ reads = << >>
    /\ panicked = FALSE
    /\ ndecodes = 0
    /\ SysIdle

\* insn.decode()
Decode ==
    /\ pc \in {"built", "decoded"}
    /\ ndecodes < MaxDecodes
    /\ insn' = decode_self(insn)
    /\ result' = decode(insn).ret
    /\ reads' = decode(insn).reads
    /\ panicked' = decode(insn).panic
    /\ first_result' = IF ndecodes = 0 THEN decode(insn).ret ELSE first_result
    /\ ndecodes' = ndecodes + 1
    /\ pc' = "decoded"
    /\ UNCHANGED <<insn0, other, other0, other_result>>
    /\ UNCHANGED sys_vars

Next == Decode

Spec == Init /\ [][Next]_vars

(***************************************************************************)
(* SpecView: a view and a copy of it whose bytes and fields a caller       *)
(* changes; then each is decoded once.                                     *)
(***************************************************************************)
InitView ==
    /\ \/ \E b0 \in SampleBytes, b1 \in SampleBytes :
             insn = Instruction_new(RawBytes(b0, b1, \h41))
       \/ insn = Instruction_default
    /\ insn0 = insn
    /\ other = insn
    /\ other0 = other
    /\ pc = "built"
    /\ result = NoResult
    /\ first_result = NoResult
    /\ other_result = NoResult
    /\ reads = << >>
    /\ panicked = FALSE
    /\ ndecodes = 0
    /\ SysIdle

\* other.insn_bytes[i] = v
WriteByte(i, v) ==
    /\ pc = "built"
    /\ ~IndexMut(other.insn_bytes, i, v).panic
    /\ other' = [other EXCEPT !.insn_bytes = IndexMut(other.insn_bytes, i, v).buf]
    /\ other0' = other'
    /\ UNCHANGED <<insn, insn0, pc, result, first_result, other_result, reads,
                   panicked, ndecodes>>
    /\ UNCHANGED sys_vars

\* other.insn_bytes.nb_bytes = n
SetUsedLength(n) ==
    /\ pc = "built"
    /\ other' = [other EXCEPT !.insn_bytes.nb_bytes = n]
    /\ other0' = other'
    /\ UNCHANGED <<insn, insn0, pc, result, first_result, other_result, reads,
                   panicked, ndecodes>>
    /\ UNCHANGED sys_vars

\* other.opnd_bytes = n
SetOperandWidth(n) ==
    /\ pc = "built"
    /\ other' = [other EXCEPT !.opnd_bytes = n]
    /\ other0' = other'
    /\ UNCHANGED <<insn, insn0, pc, result, first_result, other_result, reads,
                   panicked, ndecodes>>
    /\ UNCHANGED sys_vars

\* other.prefixes = p
SetPrefixes(p) ==
    /\ pc = "built"
    /\ other' = [other EXCEPT !.prefixes = p]
    /\ other0' = other'
    /\ UNCHANGED <<insn, insn0, pc, result, first_result, other_result, reads,
                   panicked, ndecodes>>
    /\ UNCHANGED sys_vars

\* other.opcode = o
SetOpcode(o) ==
    /\ pc = "built"
    /\ other' = [other EXCEPT !.opcode = o]
    /\ other0' = other'
    /\ UNCHANGED <<insn, insn0, pc, result, first_result, other_result, reads,
                   panicked, ndecodes>>
    /\ UNCHANGED sys_vars

\* insn.decode(), once the caller has finished with the copy
DecodeFirst ==
    /\ pc = "built"
    /\ insn' = decode_self(insn)
    /\ result' = decode(insn).ret
    /\ first_result' = decode(insn).ret
    /\ ndecodes' = ndecodes + 1
    /\ pc' = "decoded"
    /\ UNCHANGED <<insn0, other, other0, other_result, reads, panicked>>
    /\ UNCHANGED sys_vars

\* other.decode()
DecodeOther ==
    /\ pc = "decoded"
    /\ other' = decode_self(other)
    /\ other0' = other
    /\ other_result' = decode(other).ret
    /\ reads' = decode(other).reads
    /\ panicked' = decode(other).panic
    /\ pc' = "both"
    /\ UNCHANGED <<insn, insn0, result, first_result, ndecodes>>
    /\ UNCHANGED sys_vars

NextView ==
    \/ \E i \in WritePositions, v \in WriteBytes : WriteByte(i, v)
    \/ \E n \in UsedLengths : SetUsedLength(n)
    \/ \E n \in OperandWidths : SetOperandWidth(n)
    \/ \E p \in PrefixValues : SetPrefixes(p)
    \/ \E o \in OpcodeValues : SetOpcode(o)
    \/ DecodeFirst
    \/ DecodeOther

SpecView == InitView /\ [][NextView]_vars

(***************************************************************************)
(* kernel/src/syscall/class1.rs                                            *)
(*                                                                         *)
(* The file system, the object table and user memory are outside the two   *)
(* files: each call into them is a step that succeeds or fails, the        *)
(* outcome drawn by the action, and it is recorded in trace.               *)
(***************************************************************************)
\* The capacity of the object table: obj_add fails on a full table.
MaxObjs == 2
\* The longest directory, and one less than the largest size argument.
MaxEntries == 2

Paths == {"a", "b"}
\* A user pointer read_c_string cannot read.
BadPtr == "bad pointer"
\* The flags of FileModes and FileFlags, and a bit that is no flag of either.
FileModes == {"READ", "WRITE", "APPEND", "TRUNC"}
FileFlags == {"CREATE"}
UnknownBit == "unknown bit"
\* The mode and flags arguments: sets of bits.
FileModeValues == SUBSET FileModes \cup {{"READ", UnknownBit}}
FileFlagValues == SUBSET FileFlags \cup {{"CREATE", UnknownBit}}

\* from_bits(): None when a bit of the argument is no flag of the set.
from_bits(bits, known) == IF bits \subseteq known THEN Some(bits) ELSE None

\* One call a system call made, and whether it returned Ok.
Call(fn, ok) == [fn |-> fn, ok |-> ok]

FsObj_new_file(path) == [kind |-> "file", path |-> path]
FsObj_new_dir(entries) == [kind |-> "dir", entries |-> entries, pos |-> 0]
\* An object of the table that is no file-system object: as_fs() is None.
NonFsObj == [kind |-> "other"]

\* What a system call amounts to: its return value, the calls it made, and
\* the file system, object table and user array it leaves.
SysOut(ret, t, fs, tbl, arr) ==
    [ret |-> ret, trace |-> t, files |-> fs, objs |-> tbl, arr |-> arr]

\* A gate that creates the file whenever open_root failed, CREATE or not.
open_res_kept_without_flag(open_ok, flags) == open_ok

\* if open_res.is_ok() || !file_flags.contains(FileFlags::CREATE)
open_res_kept(open_ok, flags) == open_ok \/ "CREATE" \notin flags

\* sys_open from the open_root call on; env holds the outcome of each call.
sys_open_file(path, mode, flags, env, fs, tbl, t0) ==
    LET t_open == Append(t0, Call("open_root", env.open_root))
        kept == open_res_kept(env.open_root, flags)
        t_handle == IF kept THEN t_open
                    ELSE Append(t_open, Call("create_root", env.create_root))
        handle_ok == IF kept THEN env.open_root ELSE env.create_root
        fs1 == IF ~kept /\ env.create_root THEN fs \cup {path} ELSE fs
        trunc == "TRUNC" \in mode
        t_trunc == IF trunc THEN Append(t_handle, Call("truncate", env.truncate))
                   ELSE t_handle
        t_seek == IF "APPEND" \in mode THEN Append(t_trunc, Call("seek_end", TRUE))
                  ELSE t_trunc
        t_add == Append(t_seek, Call("obj_add", env.obj_add))
    IN  IF ~handle_ok
        THEN SysOut(Err(IF kept THEN "open_root" ELSE "create_root"),
                    t_handle, fs1, tbl, << >>)
        ELSE IF trunc /\ ~env.truncate
        THEN SysOut(Err("truncate"), t_trunc, fs1, tbl, << >>)
        ELSE IF ~env.obj_add
        THEN SysOut(Err("obj_add"), t_add, fs1, tbl, << >>)
        ELSE SysOut(Ok(Len(tbl)), t_add, fs1,
                    Append(tbl, FsObj_new_file(path)), << >>)

sys_open(path, mode, flags, env, fs, tbl) ==
    IF path = BadPtr
    THEN SysOut(Err("read_c_string"), <<Call("read_c_string", FALSE)>>,
                fs, tbl, << >>)
    ELSE IF from_bits(mode, FileModes) = None
            \/ from_bits(flags, FileFlags) = None
    THEN SysOut(Err("EINVAL"), <<Call("read_c_string", TRUE)>>, fs, tbl, << >>)
    ELSE sys_open_file(path, from_bits(mode, FileModes).val,
                       from_bits(flags, FileFlags).val, env, fs, tbl,
                       <<Call("read_c_string", TRUE)>>)

\* A slot of the user array nothing was written to.
Unwritten == [tag |-> "Unwritten"]

\* The DirEnt sys_readdir builds from what readdir() returned.
new_entry(name, dirent) ==
    IF dirent.kind = "File"
    THEN [file_name |-> name, file_type |-> "File", file_size |-> dirent.size]
    ELSE [file_name |-> name, file_type |-> "Directory", file_size |-> 0]

\* An end of directory that counts the failed read as an entry.
readdir_end_off_by_one(i) == Ok(i + 1)

\* return Ok(i as u64), when readdir() returned None
readdir_end(i) == Ok(i)

\* The entries readdir() yields for an object, and its cursor.
fsobj_entries(o) == IF o.kind = "dir" THEN o.entries ELSE << >>
fsobj_pos(o) == IF o.kind = "dir" THEN o.pos ELSE 0

\* The loop of sys_readdir from iteration i on. st: size, the object's
\* entries and cursor pos, the user array arr and trace so far; fail_at is
\* the iteration whose readdir() fails (-1: none), mapped the number of
\* slots of the user array that can be written.
RECURSIVE readdir_loop(_, _)
readdir_loop(i, st) ==
    IF i >= st.size
    THEN [st EXCEPT !.ret = Ok(st.size)]
    ELSE IF st.fail_at = i
    THEN [st EXCEPT !.ret = Err("readdir"),
                    !.trace = Append(@, [fn |-> "readdir", ok |-> FALSE])]
    ELSE IF st.pos >= Len(st.entries)
    THEN [st EXCEPT !.ret = readdir_end(i),
                    !.trace = Append(@, [fn |-> "readdir", ok |-> TRUE,
                                         ret |-> None])]
    ELSE LET e == st.entries[st.pos + 1]
             t_read == Append(st.trace, [fn |-> "readdir", ok |-> TRUE,
                                         ret |-> Some(e)])
         IN  IF i >= st.mapped
             THEN [st EXCEPT !.ret = Err("write"),
                             !.pos = @ + 1,
                             !.trace = Append(t_read, [fn |-> "write", ok |-> FALSE,
                                                       index |-> i])]
             ELSE readdir_loop(i + 1,
                     [st EXCEPT !.pos = @ + 1,
                                !.arr[i] = new_entry(e.name, e.dirent),
                                !.trace = Append(t_read, [fn |-> "write", ok |-> TRUE,
                                                          index |-> i])])

sys_readdir(obj_id, size, fail_at, mapped, fs, tbl) ==
    LET blank == [i \in 0 .. size - 1 |-> Unwritten]
    IN  IF obj_id >= Len(tbl)
        THEN SysOut(Err("obj_get"), <<Call("obj_get", FALSE)>>, fs, tbl, blank)
        ELSE IF tbl[obj_id + 1].kind \notin {"file", "dir"}
        THEN SysOut(Err("ENOTSUPP"), <<Call("obj_get", TRUE)>>, fs, tbl, blank)
        ELSE LET o == tbl[obj_id + 1]
                 end == readdir_loop(0,
                          [size |-> size, entries |-> fsobj_entries(o),
                           pos |-> fsobj_pos(o), fail_at |-> fail_at,
                           mapped |-> mapped, arr |-> blank,
                           trace |-> <<Call("obj_get", TRUE)>>,
                           ret |-> NoResult])
             IN  SysOut(end.ret, end.trace, fs,
                        IF o.kind = "dir"
                        THEN [tbl EXCEPT ![obj_id + 1].pos = end.pos]
                        ELSE tbl,
                        end.arr)

\* No instruction is being decoded: the part of the state the system calls
\* leave alone.
InsnIdle ==
    /\ insn = Instruction_default
    /\ insn0 = insn
    /\ other = insn
    /\ other0 = insn
    /\ pc = "sys"
    /\ result = NoResult
    /\ first_result = NoResult
    /\ other_result = NoResult
    /\ reads = << >>
    /\ panicked = FALSE
    /\ ndecodes = 0

(***************************************************************************)
(* SpecOpen: sys_open, again and again, on a root directory that holds     *)
(* any of the paths and an object table that starts empty.                 *)
(***************************************************************************)
InitOpen ==
    /\ InsnIdle
    /\ files \in SUBSET Paths
    /\ objs = << >>
    /\ syscall = NoResult
    /\ user_dirents = << >>
    /\ trace = << >>
    /\ sysret = NoResult

\* The outcomes of the calls sys_open makes. open_root finds only a file
\* that exists, obj_add only a free slot; a call that is not made is given
\* the outcome TRUE.
OpenOutcomes(path, mode, flags) ==
    {env \in [open_root : BOOLEAN, create_root : BOOLEAN,
              truncate : BOOLEAN, obj_add : BOOLEAN] :
        /\ env.open_root => path \in files
        /\ env.obj_add <=> Len(objs) < MaxObjs
        /\ (env.open_root \/ "CREATE" \notin flags) => env.create_root
        /\ "TRUNC" \notin mode => env.truncate}

SysOpen(path, mode, flags, env) ==
    LET out == sys_open(path, mode, flags, env, files, objs)
    IN  /\ pc = "sys"
        /\ syscall' = [name |-> "sys_open", path |-> path, mode |-> mode,
                       flags |-> flags, files0 |-> files, objs0 |-> objs]
        /\ sysret' = out.ret
        /\ trace' = out.trace
        /\ files' = out.files
        /\ objs' = out.objs
        /\ user_dirents' = out.arr
        /\ UNCHANGED insn_vars

NextOpen ==
    \E path \in Paths \cup {BadPtr}, mode \in FileModeValues,
       flags \in FileFlagValues :
        \E env \in OpenOutcomes(path, mode, flags) :
            SysOpen(path, mode, flags, env)

SpecOpen == InitOpen /\ [][NextOpen]_vars

(***************************************************************************)
(* SpecReaddir: sys_readdir, again and again, on an object table that      *)
(* holds an open directory, an open file and an object of another kind.    *)
(***************************************************************************)
\* What a directory holds: files of size 0 and 7, and directories.
DirEntries ==
    {[kind |-> "File", size |-> 0], [kind |-> "File", size |-> 7],
     [kind |-> "Directory"]}

\* The directories of up to MaxEntries entries, the k-th one named k.
Listings ==
    UNION {{[k \in 1 .. n |-> [name |-> k, dirent |-> f[k]]] :
               f \in [1 .. n -> DirEntries]} : n \in 0 .. MaxEntries}

InitReaddir ==
    /\ InsnIdle
    /\ files = {"a"}
    /\ \E l \in Listings :
          objs = <<FsObj_new_dir(l), FsObj_new_file("a"), NonFsObj>>
    /\ syscall = NoResult
    /\ user_dirents = << >>
    /\ trace = << >>
    /\ sysret = NoResult

SysReaddir(obj_id, size, fail_at, mapped) ==
    LET out == sys_readdir(obj_id, size, fail_at, mapped, files, objs)
    IN  /\ pc = "sys"
        /\ syscall' = [name |-> "sys_readdir", obj_id |-> obj_id, size |-> size,
                       files0 |-> files, objs0 |-> objs]
        /\ sysret' = out.ret
        /\ trace' = out.trace
        /\ files' = out.files
        /\ objs' = out.objs
        /\ user_dirents' = out.arr
        /\ UNCHANGED insn_vars

NextReaddir ==
    \E obj_id \in 0 .. Len(objs), size \in 0 .. MaxEntries + 1 :
        \E fail_at \in -1 .. size - 1, mapped \in 0 .. size :
            SysReaddir(obj_id, size, fail_at, mapped)

SpecReaddir == InitReaddir /\ [][NextReaddir]_vars

(***************************************************************************)
(* Properties of the decoder.                                              *)
(***************************************************************************)
Byte0(v) == v.insn_bytes.buf[0]
Byte1(v) == v.insn_bytes.buf[1]

\* The operand every port instruction carries: Operand::Reg(Register::Rdx).
RegRdx == [tag |-> "Reg", reg |-> "Rdx"]

\* r is the decode failure: an error classified DecodeFailed.
IsDecodeFailed(r) ==
    /\ r # NoResult
    /\ ~r.ok
    /\ r.err.vc.error_type = "DecodeFailed"

\* r is Ok of the variant named name, with its operand, and of size n.
IsDecoded(r, name, n) ==
    /\ r # NoResult
    /\ r.ok
    /\ r.val = (IF name = "Cpuid"
                THEN [insn |-> "Cpuid"]
                ELSE [insn |-> name, opnd |-> RegRdx])
    /\ DecodedInsn_size(r.val) = n

\* C1: a raw buffer that begins with one of the seven supported patterns
\* decodes to the pattern's variant (the port instructions carrying
\* Reg(Rdx), Cpuid no operand), whose size() is the length table's value.
C1_SupportedPatternsDecode ==
    pc = "decoded" =>
        /\ Byte0(insn) = \hEC => IsDecoded(result, "Inb", 1)
        /\ Byte0(insn) = \hED => IsDecoded(result, "Inl", 1)
        /\ Byte0(insn) = \hEE => IsDecoded(result, "Outb", 1)
        /\ Byte0(insn) = \hEF => IsDecoded(result, "Outl", 1)
        /\ Byte0(insn) = \h66 /\ Byte1(insn) = \hED => IsDecoded(result, "Inw", 2)
        /\ Byte0(insn) = \h66 /\ Byte1(insn) = \hEF => IsDecoded(result, "Outw", 2)
        /\ Byte0(insn) = \h0F /\ Byte1(insn) = \hA2 => IsDecoded(result, "Cpuid", 2)

\* 0x66 0xED followed by zero bytes has been decoded to Inw, of size 2.
C1_Witness ==
    /\ pc = "decoded"
    /\ Byte0(insn) = \h66
    /\ Byte1(insn) = \hED
    /\ insn.insn_bytes.buf[2] = \h00
    /\ IsDecoded(result, "Inw", 2)

\* C2: a raw buffer whose byte 0 is none of 0xEC, 0xED, 0xEE, 0xEF, 0x66,
\* 0x0F fails to decode with DecodeFailed, whatever the bytes after it.
C2_UnknownLeadByteFails ==
    pc = "decoded" /\ Byte0(insn) \notin {\hEC, \hED, \hEE, \hEF, \h66, \h0F}
        => IsDecodeFailed(result)

\* A buffer that spells IN AL, DX from byte 1 on has been rejected.
C2_Witness ==
    /\ pc = "decoded"
    /\ Byte0(insn) = \h41
    /\ Byte1(insn) = \hEC
    /\ IsDecodeFailed(result)

\* C3: a two-byte lead whose byte 1 does not complete a supported pattern
\* fails with DecodeFailed: 0x66 before anything but 0xED and 0xEF, and
\* 0x0F before anything but 0xA2.
C3_IncompleteTwoBytePatternFails ==
    pc = "decoded" =>
        /\ Byte0(insn) = \h66 /\ Byte1(insn) \notin {\hED, \hEF}
              => IsDecodeFailed(result)
        /\ Byte0(insn) = \h0F /\ Byte1(insn) # \hA2
              => IsDecodeFailed(result)

\* The buffer of test_decode_failed, 0x66 0xEE, has been rejected.
C3_Witness ==
    /\ pc = "decoded"
    /\ Byte0(insn) = \h66
    /\ Byte1(insn) = \hEE
    /\ IsDecodeFailed(result)

\* C4: two views whose raw buffers agree on bytes 0 and 1 decode to the
\* same result, whatever their later bytes, prefixes, opcode buffer, used
\* length and operand width.
C4_DecodeDependsOnTwoBytesOnly ==
    pc = "both" /\ Byte0(other) = Byte0(insn) /\ Byte1(other) = Byte1(insn)
        => other_result = result

\* Two views of 0x66 0xED that differ in every other respect were decoded.
C4_Witness ==
    /\ pc = "both"
    /\ Byte0(insn) = \h66 /\ Byte0(other) = \h66
    /\ Byte1(insn) = \hED /\ Byte1(other) = \hED
    /\ other.insn_bytes.buf[2] # insn.insn_bytes.buf[2]
    /\ other.insn_bytes.buf[MAX_INSN_SIZE - 1] # insn.insn_bytes.buf[MAX_INSN_SIZE - 1]
    /\ other.insn_bytes.nb_bytes # insn.insn_bytes.nb_bytes
    /\ other.opnd_bytes # insn.opnd_bytes
    /\ other.prefixes # insn.prefixes
    /\ other.opcode # insn.opcode
    /\ IsDecoded(result, "Inw", 2)
    /\ IsDecoded(other_result, "Inw", 2)

C6_UsedLengthAdjustedByDecode ==
    pc = "decoded" /\ result # NoResult /\ result.ok =>
        /\ len(insn) = DecodedInsn_size(result.val)
        /\ ~is_empty(insn)

\* C7: every error decode() returns is the same value: a VcError classified
\* DecodeFailed with rip 0 and error code 0.
C7_OneDecodeError ==
    pc = "decoded" /\ result # NoResult /\ ~result.ok =>
        result.err = [kind |-> "Vc",
                      vc |-> [rip |-> 0, code |-> 0,
                              error_type |-> "DecodeFailed"]]

\* A decode has failed on a 0x66 prefix and another byte 0 exists that fails.
C7_Witness ==
    /\ pc = "decoded"
    /\ Byte0(insn) = \h66
    /\ Byte1(insn) = \h90
    /\ result # NoResult
    /\ ~result.ok

\* C8: for every raw buffer and every used length, decode() indexes
\* position 0 and, only after a 0x66 or 0x0F, position 1; it indexes below
\* the capacity, writes nothing and does not panic; the all-zero buffer
\* fails with DecodeFailed.
C8_IndexesWithinCapacity ==
    pc = "both" =>
        /\ ~panicked
        /\ other_result # NoResult
        /\ reads = (IF Byte0(other) \in {\h66, \h0F} THEN <<0, 1>> ELSE <<0>>)
        /\ \A k \in 1 .. Len(reads) : reads[k] < MAX_INSN_SIZE
        /\ other = other0
        /\ (\A i \in 0 .. MAX_INSN_SIZE - 1 : other.insn_bytes.buf[i] = 0)
              => IsDecodeFailed(other_result)

\* A view of used length 0 that begins with 0x66 was decoded: position 1,
\* beyond the used length, was indexed.
C8_Witness ==
    /\ pc = "both"
    /\ len(other) = 0
    /\ Byte0(other) = \h66
    /\ reads = <<0, 1>>
    /\ ~panicked

\* The all-zero buffer of used length 0 was decoded, and failed.
C8_AllZeroReached ==
    /\ pc = "both"
    /\ \A i \in 0 .. MAX_INSN_SIZE - 1 : other.insn_bytes.buf[i] = 0
    /\ len(other) = 0
    /\ IsDecodeFailed(other_result)

(***************************************************************************)
(* Properties of the system calls.                                         *)
(***************************************************************************)
\* The last system call called fn; it called fn and fn returned Ok, or Err.
Called(fn) == \E k \in 1 .. Len(trace) : trace[k].fn = fn
Succeeded(fn) == \E k \in 1 .. Len(trace) : trace[k].fn = fn /\ trace[k].ok
Failed(fn) == \E k \in 1 .. Len(trace) : trace[k].fn = fn /\ ~trace[k].ok

AfterSysOpen == syscall # NoResult /\ syscall.name = "sys_open"

\* C9: sys_open calls create_root only after open_root failed with CREATE
\* set; after an open_root that succeeded it creates nothing; after one that
\* failed without CREATE it returns the open error, creates nothing and
\* adds no object; and obj_add is its last call, made only after the open
\* or create, the truncate under TRUNC and the seek_end under APPEND went
\* through.
C9_CreateOnlyOnFailedOpenWithCreate ==
    AfterSysOpen =>
        /\ Called("create_root")
              => Failed("open_root") /\ "CREATE" \in syscall.flags
        /\ Succeeded("open_root") => ~Called("create_root")
        /\ files # syscall.files0 => Succeeded("create_root")
        /\ Failed("open_root") /\ "CREATE" \notin syscall.flags
              => /\ sysret = [ok |-> FALSE, err |-> "open_root"]
                 /\ ~Called("create_root")
                 /\ ~Called("obj_add")
                 /\ files = syscall.files0
                 /\ objs = syscall.objs0
        /\ Called("obj_add")
              => /\ trace[Len(trace)].fn = "obj_add"
                 /\ \A k \in 1 .. Len(trace) - 1 :
                       trace[k].ok \/ trace[k].fn = "open_root"
                 /\ Succeeded("open_root") \/ Succeeded("create_root")
                 /\ "TRUNC" \in syscall.mode => Succeeded("truncate")
                 /\ "APPEND" \in syscall.mode => Called("seek_end")
        /\ objs # syscall.objs0
              => /\ Succeeded("obj_add")
                 /\ sysret = [ok |-> TRUE, val |-> Len(syscall.objs0)]
                 /\ objs = Append(syscall.objs0,
                                  [kind |-> "file", path |-> syscall.path])

\* A sys_open with CREATE, TRUNC and APPEND found no file, created it,
\* truncated it, sought its end and added the object.
C9_Witness ==
    /\ AfterSysOpen
    /\ syscall.flags = {"CREATE"}
    /\ {"TRUNC", "APPEND"} \subseteq syscall.mode
    /\ [k \in 1 .. Len(trace) |-> trace[k].fn]
          = <<"read_c_string", "open_root", "create_root", "truncate",
              "seek_end", "obj_add">>
    /\ Failed("open_root")
    /\ sysret # NoResult
    /\ sysret.ok
    /\ Len(objs) = Len(syscall.objs0) + 1
    /\ files # syscall.files0

\* The last system call was a sys_readdir that got as far as its loop.
AfterReaddirLoop ==
    /\ syscall # NoResult
    /\ syscall.name = "sys_readdir"
    /\ Succeeded("obj_get")
    /\ syscall.objs0[syscall.obj_id + 1].kind \in {"file", "dir"}

\* The calls of readdir() the last system call made, those that yielded an
\* entry, and the writes to the user array.
ReaddirCalls == SelectSeq(trace, LAMBDA c : c.fn = "readdir")
EntriesRead ==
    SelectSeq(trace, LAMBDA c : c.fn = "readdir" /\ c.ok /\ c.ret # None)
UserWrites == SelectSeq(trace, LAMBDA c : c.fn = "write")

\* The entries of the object read, from its cursor on, before the call.
EntriesAhead ==
    LET o == syscall.objs0[syscall.obj_id + 1]
    IN  IF o.kind = "dir" THEN SubSeq(o.entries, o.pos + 1, Len(o.entries))
        ELSE << >>

\* C10: sys_readdir returns the number n <= size of entries it wrote: the
\* i-th entry read is at index i of the user array, in read order, and
\* nothing else is written; readdir() is called at most size times; n < size
\* only when readdir() reported the end after exactly n entries; a failed
\* readdir() or write is the last call made and an error is returned.
C10_ReaddirReturnsEntriesWritten ==
    AfterReaddirLoop =>
        /\ Len(ReaddirCalls) <= syscall.size
        /\ \A k \in 1 .. Len(EntriesRead) :
              EntriesRead[k].ret.val = EntriesAhead[k]
        /\ sysret.ok =>
              /\ sysret.val <= syscall.size
              /\ Len(UserWrites) = sysret.val
              /\ \A i \in 0 .. syscall.size - 1 :
                    user_dirents[i] =
                       IF i < sysret.val
                       THEN LET e == EntriesRead[i + 1].ret.val
                            IN  [file_name |-> e.name,
                                 file_type |-> e.dirent.kind,
                                 file_size |-> IF e.dirent.kind = "File"
                                               THEN e.dirent.size ELSE 0]
                       ELSE [tag |-> "Unwritten"]
              /\ sysret.val < syscall.size =>
                    /\ Len(EntriesRead) = sysret.val
                    /\ ReaddirCalls[Len(ReaddirCalls)].ret = None
        /\ Failed("readdir") \/ Failed("write") =>
              /\ ~sysret.ok
              /\ ~trace[Len(trace)].ok
              /\ \A k \in 1 .. Len(trace) - 1 : trace[k].ok
        /\ ~sysret.ok => Failed("readdir") \/ Failed("write")

\* A sys_readdir of size 3 on a directory with two entries left wrote both
\* and returned 2.
C10_Witness ==
    /\ AfterReaddirLoop
    /\ syscall.size = 3
    /\ sysret = [ok |-> TRUE, val |-> 2]
    /\ Len(EntriesAhead) = 2
    /\ user_dirents[0].file_name = 1
    /\ user_dirents[1].file_name = 2
    /\ user_dirents[1].file_type = "File"
    /\ user_dirents[1].file_size = 7
    /\ user_dirents[2] = [tag |-> "Unwritten"]

====
